---- MODULE Spec2Model ----
(***************************************************************************)
(* State-machine model of the load-test orchestration in                   *)
(* cmd/loadTests.go: setup (validation, allocation, spawn, join, report),  *)
(* userJourneyThread (three stage goroutines per thread, two buffered      *)
(* channels, a WaitGroup) and logError (mutex-guarded error table).        *)
(***************************************************************************)
EXTENDS Integers, Sequences, FiniteSets, TLC

\* ---------------------------------------------------------------- bounds
MaxOverallCount == 2 \* threadCount * numberOfUsers is at most MaxOverallCount
MaxPolls == 2        \* condition evaluations of one k8swait.Poll before its timeout
MaxDuration == 1     \* a measured duration ranges over 1..MaxDuration ticks
TicksPerSecond == 2  \* resolution of the model's clock
MaxContexts == 3     \* journey.MainContexts holds at most MaxContexts contexts

VARIABLES
    \* flags (loadTests.go:34-46)
    threadCount, numberOfUsers, userBatches, waitPipelines, failFast,
    \* setup's position and process exit
    mainpc, exited,
    \* package-level accumulators (loadTests.go:48-58)
    AverageUserCreationTime, AverageResourceCreationTimePerUser,
    AveragePipelineRunTimePerUser,
    FailedUserCreations, FailedResourceCreations, FailedPipelineRuns,
    errorOccurredMap, errorMutex, threadsWG,
    \* progress bars (loadTests.go:260-270)
    usersBar, resourcesBar, pipelinesBar,
    \* userJourneyThread locals, per thread
    tpc, wg, chUsers, chUsersClosed, chPipelines, chPipelinesClosed,
    \* stage goroutine locals, per <<thread, stage>> or per thread
    pc, userIndex, inner, cur, polls,
    \* logError locals, per <<thread, stage>>
    pend, errorOccurrence,
    \* what setup read for the log summary and for the JSON report
    summary, logData,
    \* history (observation only; never read by an action's guard)
    createFailed, nsChecks, sentUsers, resFailed, sentPipelines,
    logCalls, lastLocked,
    \* history of Stage 3: terminal states seen, waits that timed out, and
    \* the lookup errors of the current wait
    observed, timedOut, lookupErrs,
    \* history of the hand-offs: the Stage-2 steps attempted per ordinal, what
    \* Stages 2 and 3 received, and each thread's share of the two shared bars
    attempted, recvUsers, recvPipelines, usersBarBy, resourcesBarBy,
    \* package journey: the contexts to purge, Purge's position in its range
    \* loop and inside purgeStage / purgeCi, its errCounter and its return
    \* value (part_001:45-70)
    MainContexts, ctxIndex, purgepc, errCounter, purgeErr,
    \* history of Purge: the deletion calls made and the ones that failed,
    \* as <<context index, step>>
    stepsRun, failedAt

flagVars == <<threadCount, numberOfUsers, userBatches, waitPipelines, failFast>>
durVars == <<AverageUserCreationTime, AverageResourceCreationTimePerUser,
             AveragePipelineRunTimePerUser>>
failVars == <<FailedUserCreations, FailedResourceCreations, FailedPipelineRuns>>
barVars == <<usersBar, resourcesBar, pipelinesBar>>
chanVars == <<chUsers, chUsersClosed, chPipelines, chPipelinesClosed>>
logVars == <<errorOccurredMap, errorMutex, errorOccurrence, lastLocked>>
histVars == <<createFailed, nsChecks, sentUsers, resFailed, sentPipelines>>
mainVars == <<mainpc, summary, logData, threadsWG>>
hist3Vars == <<observed, timedOut, lookupErrs>>
hist4Vars == <<attempted, recvUsers, recvPipelines, usersBarBy, resourcesBarBy>>

purgeVars == <<MainContexts, ctxIndex, purgepc, errCounter, purgeErr,
               stepsRun, failedAt>>

loadVars == <<flagVars, durVars, failVars, barVars, chanVars, logVars, histVars,
              hist3Vars, hist4Vars, mainVars, exited, tpc, wg, pc, userIndex, inner, cur, polls, pend, logCalls>>

vars == <<loadVars, purgeVars>>

\* ------------------------------------------------------------- vocabulary
Threads == 0 .. threadCount - 1
Stages == {1, 2, 3}
Procs == Threads \X Stages
ErrorCodes == 1 .. 9
NoOwner == <<>>
NotReturned == [returned |-> FALSE]
NoPend == [errCode |-> 0, message |-> 0]

\* ErrorOccurrence{} : the zero value a failed map lookup yields (loadTests.go:60-64)
ZeroOccurrence == [ErrorNumber |-> 0, LatestMessage |-> 0, Count |-> 0]

\* errorOccurrence, ok of a lookup that found nothing (loadTests.go:152)
NoLookup == [ok |-> FALSE, val |-> ZeroOccurrence]

\* faulty variant of UserNumber: the thread's offset is left out
UserNumberOfOrdinal(t, u) == u

\* threadIndex*numberOfUsers+userIndex, the number the username is formatted from
UserNumber(t, u) == t * numberOfUsers + u

\* the decimal digits of a natural number, most significant first
RECURSIVE Digits(_)
Digits(n) == IF n < 10 THEN <<n>> ELSE Append(Digits(n \div 10), n % 10)

\* %04d: the digits, padded with zeros on the left to a width of four
Format04d(n) ==
    LET d == Digits(n)
    IN IF Len(d) >= 4 THEN d ELSE [k \in 1 .. 4 - Len(d) |-> 0] \o d

\* fmt.Sprintf("%s-%04d", usernamePrefix, threadIndex*numberOfUsers+userIndex):
\* the username after the prefix all usernames share (loadTests.go:401, 429, 496)
Username(t, u) == Format04d(UserNumber(t, u))

overallCount == numberOfUsers * threadCount

RECURSIVE SumOver(_, _)
SumOver(f, S) ==
    IF S = {} THEN 0
    ELSE LET x == CHOOSE y \in S : TRUE IN f[x] + SumOver(f, S \ {x})

sumFromArray(array) == SumOver(array, DOMAIN array)

\* int(d.Seconds()): whole seconds of a duration given in ticks
Seconds(d) == d \div TicksPerSecond

\* the float64 quotient is kept exact as <<numerator, denominator>>
averageDurationFromArray(duration, count) ==
    <<SumOver([t \in DOMAIN duration |-> Seconds(duration[t])], DOMAIN duration), count>>

Durations == 1 .. MaxDuration

Running == exited = "no"


\* ------------------------------------------------------------------ Init
\* Purge has not been called: the load test does not call it
PurgeIdle ==
    /\ MainContexts = <<>>
    /\ ctxIndex = 0
    /\ purgepc = "idle"
    /\ errCounter = 0
    /\ purgeErr = NotReturned
    /\ stepsRun = {}
    /\ failedAt = {}

\* the load test's variables before setup runs (loadTests.go:48-58)
LoadTestStart ==
    /\ mainpc = "setup"
    /\ exited = "no"
    /\ AverageUserCreationTime = <<>>
    /\ AverageResourceCreationTimePerUser = <<>>
    /\ AveragePipelineRunTimePerUser = <<>>
    /\ FailedUserCreations = <<>>
    /\ FailedResourceCreations = <<>>
    /\ FailedPipelineRuns = <<>>
    /\ errorOccurredMap = <<>>
    /\ errorMutex = NoOwner
    /\ threadsWG = 0
    /\ usersBar = 0
    /\ resourcesBar = 0
    /\ pipelinesBar = 0
    /\ tpc = [t \in Threads |-> "unspawned"]
    /\ wg = [t \in Threads |-> 0]
    /\ chUsers = [t \in Threads |-> <<>>]
    /\ chUsersClosed = [t \in Threads |-> FALSE]
    /\ chPipelines = [t \in Threads |-> <<>>]
    /\ chPipelinesClosed = [t \in Threads |-> FALSE]
    /\ pc = [p \in Procs |-> "off"]
    /\ userIndex = [t \in Threads |-> 0]
    /\ inner = [t \in Threads |-> 0]
    /\ cur = [p \in Procs |-> 0]
    /\ polls = [t \in Threads |-> 0]
    /\ pend = [p \in Procs |-> NoPend]
    /\ errorOccurrence = [p \in Procs |-> NoLookup]
    /\ summary = <<>>
    /\ logData = <<>>
    /\ createFailed = [t \in Threads |-> {}]
    /\ nsChecks = [t \in Threads |-> {}]
    /\ sentUsers = [t \in Threads |-> <<>>]
    /\ resFailed = [t \in Threads |-> {}]
    /\ sentPipelines = [t \in Threads |-> <<>>]
    /\ logCalls = [c \in ErrorCodes |-> 0]
    /\ lastLocked = [c \in ErrorCodes |-> 0]
    /\ observed = [t \in Threads |-> {}]
    /\ timedOut = [t \in Threads |-> {}]
    /\ lookupErrs = [t \in Threads |-> 0]
    /\ attempted = [t \in Threads |-> {}]
    /\ recvUsers = [t \in Threads |-> <<>>]
    /\ recvPipelines = [t \in Threads |-> <<>>]
    /\ usersBarBy = [t \in Threads |-> 0]
    /\ resourcesBarBy = [t \in Threads |-> 0]

\* The process before setup runs: flags parsed, package-level slices nil.
Init ==
    /\ threadCount \in 0 .. MaxOverallCount
    /\ numberOfUsers \in 0 .. MaxOverallCount
    /\ threadCount * numberOfUsers <= MaxOverallCount
    /\ userBatches \in 1 .. MaxOverallCount
    /\ waitPipelines \in BOOLEAN
    /\ failFast \in BOOLEAN
    /\ LoadTestStart
    /\ PurgeIdle

\* ----------------------------------------------------------------- setup
\* faulty variant of BadBatches: the divisibility test is left out
BadBatchesUnchecked == FALSE

\* numberOfUsers%userBatches != 0 (loadTests.go:195)
BadBatches == numberOfUsers % userBatches # 0

\* klog.Fatalf("Please Provide Correct Batches!") (loadTests.go:195-198)
SetupBadBatches ==
    /\ Running
    /\ UNCHANGED purgeVars
    /\ mainpc = "setup"
    /\ BadBatches
    /\ exited' = "config"
    /\ UNCHANGED <<hist4Vars, hist3Vars, flagVars, durVars, failVars, barVars, chanVars, logVars,
                   histVars, mainVars, tpc, wg, pc, userIndex, inner, cur,
                   polls, pend, logCalls>>

\* framework.NewFramework / token lookup fail: klog.Fatalf (loadTests.go:205-219)
SetupInitFatal ==
    /\ Running
    /\ UNCHANGED purgeVars
    /\ mainpc = "setup"
    /\ ~BadBatches
    /\ exited' = "init"
    /\ UNCHANGED <<hist4Vars, hist3Vars, flagVars, durVars, failVars, barVars, chanVars, logVars,
                   histVars, mainVars, tpc, wg, pc, userIndex, inner, cur,
                   polls, pend, logCalls>>

\* make(...) of the six slices and the map, threadsWG.Add, the go loop
\* (loadTests.go:272-283)
SetupSpawn ==
    /\ Running
    /\ UNCHANGED purgeVars
    /\ mainpc = "setup"
    /\ ~BadBatches
    /\ AverageUserCreationTime' = [t \in Threads |-> 0]
    /\ AverageResourceCreationTimePerUser' = [t \in Threads |-> 0]
    /\ AveragePipelineRunTimePerUser' = [t \in Threads |-> 0]
    /\ FailedUserCreations' = [t \in Threads |-> 0]
    /\ FailedResourceCreations' = [t \in Threads |-> 0]
    /\ FailedPipelineRuns' = [t \in Threads |-> 0]
    /\ errorOccurredMap' = <<>>
    /\ threadsWG' = threadsWG + threadCount
    /\ tpc' = [t \in Threads |-> "spawned"]
    /\ mainpc' = "wait"
    /\ UNCHANGED <<hist4Vars, hist3Vars, flagVars, barVars, chanVars, errorMutex, errorOccurrence,
                   lastLocked, histVars, summary, logData, exited, wg, pc,
                   userIndex, inner, cur, polls, pend, logCalls>>

\* ----------------------------------------------------- userJourneyThread
\* faulty variant of StageCount: wg.Add(2) whether or not Stage 3 is started
StageCountTwo == IF waitPipelines THEN 2 ELSE 2

\* wg.Add(3) when waitPipelines, wg.Add(2) otherwise (loadTests.go:391-395)
StageCount == IF waitPipelines THEN 3 ELSE 2

\* faulty variant of ChannelCapacity: the channels are made with the batch size
ChannelCapacityOfBatch == userBatches

\* make(chan int, numberOfUsers): the buffer of chUsers and of chPipelines
\* (loadTests.go:386-387)
ChannelCapacity == numberOfUsers

\* faulty variant of AddFailed: the store writes 1 instead of the sum
AddFailedStoresOne(array, t) == [array EXCEPT ![t] = 1]

\* atomic.StoreInt64(&a[threadIndex], atomic.AddInt64(&a[threadIndex], 1)):
\* the slot has one writer, so the store writes back what the add left
\* (loadTests.go:404)
AddFailed(array, t) == [array EXCEPT ![t] = @ + 1]

\* faulty variant of Stage3Start: the Stage-3 goroutine is started whatever
\* waitPipelines says
Stage3Always == "recv"

\* if waitPipelines { go func() { for userIndex := range chPipelines ... :
\* where the Stage-3 goroutine of a thread starts (loadTests.go:493-495)
Stage3Start == IF waitPipelines THEN "recv" ELSE "off"

\* make the two channels, wg.Add, start the stage goroutines
\* (loadTests.go:386-397, 426, 493-494)
UserJourneyThread(t) ==
    /\ Running
    /\ UNCHANGED purgeVars
    /\ tpc[t] = "spawned"
    /\ chUsers' = [chUsers EXCEPT ![t] = <<>>]
    /\ chPipelines' = [chPipelines EXCEPT ![t] = <<>>]
    /\ UNCHANGED <<chUsersClosed, chPipelinesClosed>>
    /\ wg' = [wg EXCEPT ![t] = @ + StageCount]
    /\ pc' = [p \in Procs |->
                IF p[1] # t THEN pc[p]
                ELSE IF p[2] = 1 THEN "create"
                ELSE IF p[2] = 2 THEN "recv"
                ELSE Stage3Start]
    /\ userIndex' = [userIndex EXCEPT ![t] = 1]
    /\ tpc' = [tpc EXCEPT ![t] = "wait"]
    /\ UNCHANGED <<hist4Vars, hist3Vars, flagVars, durVars, failVars, barVars, logVars, histVars,
                   mainVars, exited, inner, cur, polls, pend, logCalls>>

\* wg.Wait() returns, threadsWG.Done() (loadTests.go:527-528)
ThreadDone(t) ==
    /\ Running
    /\ UNCHANGED purgeVars
    /\ tpc[t] = "wait"
    /\ wg[t] = 0
    /\ threadsWG' = threadsWG - 1
    /\ tpc' = [tpc EXCEPT ![t] = "done"]
    /\ UNCHANGED <<hist4Vars, hist3Vars, flagVars, durVars, failVars, barVars, chanVars, logVars,
                   histVars, mainpc, summary, logData, exited, wg, pc,
                   userIndex, inner, cur, polls, pend, logCalls>>


\* --------------------------------------------------------------- logError
\* the call logError(errCode, message): the caller enters logError
CallLogError(p, code, msg) ==
    /\ pc' = [pc EXCEPT ![p] = "logError"]
    /\ pend' = [pend EXCEPT ![p] = [errCode |-> code, message |-> msg]]
    /\ logCalls' = [logCalls EXCEPT ![code] = @ + 1]

\* faulty variant of MutexFree: Lock returns whether or not the mutex is held
MutexNeverHeld == TRUE

\* errorMutex.Lock() can return (loadTests.go:150)
MutexFree == errorMutex = NoOwner

\* faulty variant of FatalOnError: logError never takes the fatal branch
FatalNever == FALSE

\* if failFast { ... } else { ... } : which branch logError takes
\* (loadTests.go:145-149)
FatalOnError == failFast

\* if failFast { klog.Fatalln(msg) } : the process exits (loadTests.go:145-146)
LogErrorFatal(p) ==
    /\ Running
    /\ UNCHANGED purgeVars
    /\ pc[p] = "logError"
    /\ FatalOnError
    /\ exited' = "failfast"
    /\ UNCHANGED <<hist4Vars, hist3Vars, flagVars, durVars, failVars, barVars, chanVars, logVars,
                   histVars, mainVars, tpc, wg, pc, userIndex, inner, cur,
                   polls, pend, logCalls>>

\* klog.Errorln(msg); errorMutex.Lock() (loadTests.go:148-150)
LogErrorLock(p) ==
    /\ Running
    /\ UNCHANGED purgeVars
    /\ pc[p] = "logError"
    /\ ~FatalOnError
    /\ MutexFree
    /\ errorMutex' = p
    /\ lastLocked' = [lastLocked EXCEPT ![pend[p].errCode] = pend[p].message]
    /\ pc' = [pc EXCEPT ![p] = "locked"]
    /\ UNCHANGED <<hist4Vars, hist3Vars, flagVars, durVars, failVars, barVars, chanVars,
                   errorOccurredMap, errorOccurrence, histVars, mainVars,
                   exited, tpc, wg, userIndex, inner, cur, polls, pend, logCalls>>

\* errorOccurrence, ok := errorOccurredMap[errCode] (loadTests.go:152)
LogErrorRead(p) ==
    /\ Running
    /\ UNCHANGED purgeVars
    /\ pc[p] = "locked"
    /\ errorOccurrence' = [errorOccurrence EXCEPT ![p] =
            IF pend[p].errCode \in DOMAIN errorOccurredMap
            THEN [ok |-> TRUE, val |-> errorOccurredMap[pend[p].errCode]]
            ELSE NoLookup]
    /\ pc' = [pc EXCEPT ![p] = "read"]
    /\ UNCHANGED <<hist4Vars, hist3Vars, flagVars, durVars, failVars, barVars, chanVars,
                   errorOccurredMap, errorMutex, lastLocked, histVars,
                   mainVars, exited, tpc, wg, userIndex, inner, cur, polls,
                   pend, logCalls>>

\* the entry logError stores for (errCode, message), given what it read
\* (loadTests.go:153-164)
NewOccurrence(read, code, msg) ==
    IF read.ok
    THEN [read.val EXCEPT !.Count = @ + 1, !.LatestMessage = msg]
    ELSE [ErrorNumber |-> code, LatestMessage |-> msg, Count |-> 1]

\* errorOccurredMap[errCode] = ...; deferred errorMutex.Unlock(); return
\* (loadTests.go:151, 153-165)
LogErrorWrite(p) ==
    /\ Running
    /\ UNCHANGED purgeVars
    /\ pc[p] = "read"
    /\ LET code == pend[p].errCode
           new == NewOccurrence(errorOccurrence[p], code, pend[p].message)
       IN errorOccurredMap' =
            [c \in DOMAIN errorOccurredMap \cup {code} |->
                IF c = code THEN new ELSE errorOccurredMap[c]]
    /\ errorMutex' = NoOwner
    /\ errorOccurrence' = [errorOccurrence EXCEPT ![p] = NoLookup]
    /\ pc' = [pc EXCEPT ![p] = "failed"]
    /\ UNCHANGED <<hist4Vars, hist3Vars, flagVars, durVars, failVars, barVars, chanVars, lastLocked,
                   histVars, mainVars, exited, tpc, wg, userIndex, inner, cur,
                   polls, pend, logCalls>>


\* ---------------------------------------------------- Stage 1 (users)
\* userIndex%userBatches == 0 (loadTests.go:407)
AtBatchEnd(u) == u % userBatches = 0

\* UserCreationTime added, usersBar.Incr(), userIndex++ (loadTests.go:418-420, 399)
S1Record(t, d) ==
    /\ AverageUserCreationTime' = [AverageUserCreationTime EXCEPT ![t] = @ + d]
    /\ usersBar' = usersBar + 1
    /\ usersBarBy' = [usersBarBy EXCEPT ![t] = @ + 1]
    /\ userIndex' = [userIndex EXCEPT ![t] = @ + 1]

\* faulty variant of InnerStart: the inner loop starts one ordinal early
InnerStartEarly(u) == u - userBatches

\* i := userIndex - userBatches + 1: the first member of the cohort that
\* ordinal u ends (loadTests.go:408)
InnerStart(u) == u - userBatches + 1

\* users.Create for userIndex, then the batch test (loadTests.go:399-408)
S1Create(t) ==
    /\ Running
    /\ UNCHANGED purgeVars
    /\ pc[<<t, 1>>] = "create"
    /\ userIndex[t] <= numberOfUsers
    /\ \/ \* users.Create returns an error: logError(1, ...)
          /\ CallLogError(<<t, 1>>, 1, UserNumber(t, userIndex[t]))
          /\ createFailed' = [createFailed EXCEPT ![t] = @ \cup {userIndex[t]}]
          /\ UNCHANGED <<AverageUserCreationTime, usersBar, usersBarBy,
                         userIndex, inner>>
       \/ \* created, not the last of a batch: straight to the bookkeeping
          /\ ~AtBatchEnd(userIndex[t])
          /\ \E d \in Durations : S1Record(t, d)
          /\ UNCHANGED <<pc, pend, logCalls, createFailed, inner>>
       \/ \* created, last of a batch: i := userIndex - userBatches + 1
          /\ AtBatchEnd(userIndex[t])
          /\ inner' = [inner EXCEPT ![t] = InnerStart(userIndex[t])]
          /\ pc' = [pc EXCEPT ![<<t, 1>>] = "wait"]
          /\ UNCHANGED <<AverageUserCreationTime, usersBar, usersBarBy,
                         userIndex, pend, logCalls, createFailed>>
    /\ UNCHANGED <<attempted, recvUsers, recvPipelines, resourcesBarBy,
                   hist3Vars, flagVars, AverageResourceCreationTimePerUser,
                   AveragePipelineRunTimePerUser, failVars, resourcesBar,
                   pipelinesBar, chanVars, logVars, nsChecks, sentUsers,
                   resFailed, sentPipelines, mainVars, exited, tpc, wg, cur,
                   polls>>

\* wait.ForNamespace for member i; the namespace name is formatted from
\* userIndex (loadTests.go:409-414)
S1WaitForNamespace(t) ==
    /\ Running
    /\ UNCHANGED purgeVars
    /\ pc[<<t, 1>>] = "wait"
    /\ \/ \* not found in time: logError(2, ...), then continue UserLoop
          /\ CallLogError(<<t, 1>>, 2, UserNumber(t, userIndex[t]))
          /\ nsChecks' = [nsChecks EXCEPT ![t] = @ \cup
                {[member |-> inner[t], ns |-> UserNumber(t, userIndex[t]), ok |-> FALSE]}]
       \/ \* found
          /\ pc' = [pc EXCEPT ![<<t, 1>>] = "send"]
          /\ nsChecks' = [nsChecks EXCEPT ![t] = @ \cup
                {[member |-> inner[t], ns |-> UserNumber(t, userIndex[t]), ok |-> TRUE]}]
          /\ UNCHANGED <<pend, logCalls>>
    /\ UNCHANGED <<hist4Vars, hist3Vars, flagVars, durVars, failVars, barVars, chanVars, logVars,
                   createFailed, sentUsers, resFailed, sentPipelines, mainVars,
                   exited, tpc, wg, userIndex, inner, cur, polls>>

\* chUsers <- i; i++; after the last member the iteration's bookkeeping
\* (loadTests.go:408, 415-420)
S1Send(t) ==
    /\ Running
    /\ UNCHANGED purgeVars
    /\ pc[<<t, 1>>] = "send"
    /\ Len(chUsers[t]) < ChannelCapacity
    /\ chUsers' = [chUsers EXCEPT ![t] = Append(@, inner[t])]
    /\ sentUsers' = [sentUsers EXCEPT ![t] = Append(@, inner[t])]
    /\ inner' = [inner EXCEPT ![t] = @ + 1]
    /\ IF inner[t] + 1 <= userIndex[t]
       THEN /\ pc' = [pc EXCEPT ![<<t, 1>>] = "wait"]
            /\ UNCHANGED <<AverageUserCreationTime, usersBar, usersBarBy,
                           userIndex>>
       ELSE /\ pc' = [pc EXCEPT ![<<t, 1>>] = "create"]
            /\ \E d \in Durations : S1Record(t, d)
    /\ UNCHANGED <<attempted, recvUsers, recvPipelines, resourcesBarBy,
                   hist3Vars, flagVars, AverageResourceCreationTimePerUser,
                   AveragePipelineRunTimePerUser, failVars, resourcesBar,
                   pipelinesBar, chUsersClosed, chPipelines, chPipelinesClosed,
                   logVars, createFailed, nsChecks, resFailed, sentPipelines,
                   mainVars, exited, tpc, wg, cur, polls, pend, logCalls>>

\* faulty variant of BarAfterS1Failure: the failure branch falls through to
\* usersBar.Incr()
BarAfterS1FailureIncr(bar) == bar + 1

\* the users bar after a failed iteration: continue skips usersBar.Incr()
\* (loadTests.go:405, 413, 420)
BarAfterS1Failure(bar) == bar

\* after logError returned: the atomic add on FailedUserCreations[threadIndex],
\* then continue / continue UserLoop (loadTests.go:404-405, 412-413)
S1Failed(t) ==
    /\ Running
    /\ UNCHANGED purgeVars
    /\ pc[<<t, 1>>] = "failed"
    /\ FailedUserCreations' = AddFailed(FailedUserCreations, t)
    /\ usersBar' = BarAfterS1Failure(usersBar)
    /\ usersBarBy' = [usersBarBy EXCEPT ![t] = BarAfterS1Failure(@)]
    /\ userIndex' = [userIndex EXCEPT ![t] = @ + 1]
    /\ pend' = [pend EXCEPT ![<<t, 1>>] = NoPend]
    /\ pc' = [pc EXCEPT ![<<t, 1>>] = "create"]
    /\ UNCHANGED <<attempted, recvUsers, recvPipelines, resourcesBarBy,
                   hist3Vars, flagVars, durVars, FailedResourceCreations,
                   FailedPipelineRuns, resourcesBar, pipelinesBar, chanVars,
                   logVars, histVars,
                   mainVars, exited, tpc, wg, inner, cur, polls,
                   logCalls>>

\* faulty variant of S1LoopOver: Stage 1 may leave its loop at any iteration
S1LoopOverEarly(t) == TRUE

\* userIndex <= numberOfUsers no longer holds: the for loop of Stage 1 is over
\* (loadTests.go:399)
S1LoopOver(t) == userIndex[t] > numberOfUsers

\* loop over: close(chUsers); wg.Done() (loadTests.go:422-423)
S1Close(t) ==
    /\ Running
    /\ UNCHANGED purgeVars
    /\ pc[<<t, 1>>] = "create"
    /\ S1LoopOver(t)
    /\ chUsersClosed' = [chUsersClosed EXCEPT ![t] = TRUE]
    /\ wg' = [wg EXCEPT ![t] = @ - 1]
    /\ pc' = [pc EXCEPT ![<<t, 1>>] = "done"]
    /\ UNCHANGED <<hist4Vars, hist3Vars, flagVars, durVars, failVars, barVars, chUsers, chPipelines,
                   chPipelinesClosed, logVars, histVars, mainVars, exited, tpc,
                   userIndex, inner, cur, polls, pend, logCalls>>


\* ------------------------------------------------ Stage 2 (resources)
\* the steps of one Stage-2 iteration, named by the error code of their
\* failure: secret 3, application 4, gitops repo 5, component 6, name check 7
ResourceSteps == 3 .. 7

\* the step at which the iteration stops, 0 when none fails: the steps run
\* in order and the first failure ends the iteration (loadTests.go:431-477)
FirstFailure(failing) ==
    IF failing = {} THEN 0
    ELSE CHOOSE c \in failing : \A x \in failing : c <= x

\* faulty variant of StepsAttempted: every step is run, whatever failed
StepsAttemptedAll(failing) == ResourceSteps

\* the steps an iteration runs when the steps in failing would fail: each
\* failure branch ends with continue, so a step runs only if no earlier
\* one failed (loadTests.go:436-477)
StepsAttempted(failing) ==
    {s \in ResourceSteps : \A f \in failing : s <= f}

\* for userIndex := range chUsers: receive one ordinal and run the five
\* steps on it (loadTests.go:427-477)
S2Resources(t) ==
    /\ Running
    /\ UNCHANGED purgeVars
    /\ pc[<<t, 2>>] = "recv"
    /\ chUsers[t] # <<>>
    /\ chUsers' = [chUsers EXCEPT ![t] = Tail(@)]
    /\ cur' = [cur EXCEPT ![<<t, 2>>] = Head(chUsers[t])]
    /\ recvUsers' = [recvUsers EXCEPT ![t] = Append(@, Head(chUsers[t]))]
    /\ \E failing \in SUBSET ResourceSteps :
         LET code == FirstFailure(failing)
             u == Head(chUsers[t])
         IN /\ attempted' = [attempted EXCEPT ![t] =
                    @ \cup {<<u, s>> : s \in StepsAttempted(failing)}]
            /\ IF code = 0
               THEN /\ pc' = [pc EXCEPT ![<<t, 2>>] = "send"]
                    /\ UNCHANGED <<pend, logCalls, resFailed>>
               ELSE /\ CallLogError(<<t, 2>>, code, UserNumber(t, u))
                    /\ resFailed' = [resFailed EXCEPT ![t] = @ \cup {<<u, code>>}]
    /\ UNCHANGED <<recvPipelines, usersBarBy, resourcesBarBy, hist3Vars, flagVars, durVars, failVars, barVars, chUsersClosed,
                   chPipelines, chPipelinesClosed, logVars, createFailed,
                   nsChecks, sentUsers, sentPipelines, mainVars, exited, tpc,
                   wg, userIndex, inner, polls>>

\* the ticks Stage 2 sleeps for ordinal u: time.Sleep(time.Second * 1) once
\* per member of the cohort when u ends a cohort (loadTests.go:478-483)
BatchSleep(u) == IF u % userBatches = 0 THEN userBatches * TicksPerSecond ELSE 0

\* the batch sleep, ResourceCreationTime added; chPipelines <- userIndex;
\* resourcesBar.Incr() (loadTests.go:478-487)
S2Send(t) ==
    /\ Running
    /\ UNCHANGED purgeVars
    /\ pc[<<t, 2>>] = "send"
    /\ Len(chPipelines[t]) < ChannelCapacity
    /\ \E d \in Durations :
         AverageResourceCreationTimePerUser' =
            [AverageResourceCreationTimePerUser EXCEPT
                ![t] = @ + d + BatchSleep(cur[<<t, 2>>])]
    /\ chPipelines' = [chPipelines EXCEPT ![t] = Append(@, cur[<<t, 2>>])]
    /\ sentPipelines' = [sentPipelines EXCEPT ![t] = Append(@, cur[<<t, 2>>])]
    /\ resourcesBar' = resourcesBar + 1
    /\ resourcesBarBy' = [resourcesBarBy EXCEPT ![t] = @ + 1]
    /\ cur' = [cur EXCEPT ![<<t, 2>>] = 0]
    /\ pc' = [pc EXCEPT ![<<t, 2>>] = "recv"]
    /\ UNCHANGED <<attempted, recvUsers, recvPipelines, usersBarBy, hist3Vars,
                   flagVars, AverageUserCreationTime,
                   AveragePipelineRunTimePerUser, failVars, usersBar,
                   pipelinesBar, chUsers, chUsersClosed, chPipelinesClosed,
                   logVars, createFailed, nsChecks, sentUsers, resFailed,
                   mainVars, exited, tpc, wg, userIndex, inner, polls, pend, logCalls>>

\* faulty variant of S2Continue: a failed step ends the Stage-2 goroutine
S2Return == "done"

\* where Stage 2 goes after a failed step: continue, the next receive
\* (loadTests.go:439, 447, 453, 471, 476)
S2Continue == "recv"

\* faulty variant of S2Counted: Stage 2 counts its failure in the slot of
\* FailedUserCreations, which Stage 1 writes
S2CountedAsUser(t) ==
    [users |-> AddFailed(FailedUserCreations, t),
     resources |-> FailedResourceCreations]

\* the failure counters after Stage 2 counted a failure: the atomic add is on
\* FailedResourceCreations[threadIndex] (loadTests.go:438, 446, 452, 470, 475)
S2Counted(t) ==
    [users |-> FailedUserCreations,
     resources |-> AddFailed(FailedResourceCreations, t)]

\* after logError returned: the atomic add on FailedResourceCreations[threadIndex],
\* then continue (loadTests.go:438-439, 446-447, 452-453, 470-471, 475-476)
S2Failed(t) ==
    /\ Running
    /\ UNCHANGED purgeVars
    /\ pc[<<t, 2>>] = "failed"
    /\ FailedUserCreations' = S2Counted(t).users
    /\ FailedResourceCreations' = S2Counted(t).resources
    /\ pend' = [pend EXCEPT ![<<t, 2>>] = NoPend]
    /\ cur' = [cur EXCEPT ![<<t, 2>>] = 0]
    /\ pc' = [pc EXCEPT ![<<t, 2>>] = S2Continue]
    /\ UNCHANGED <<hist4Vars, hist3Vars, flagVars, durVars, FailedPipelineRuns,
                   barVars, chanVars, logVars, histVars, mainVars, exited, tpc,
                   wg, userIndex, inner, polls, logCalls>>

\* for ... range chUsers ends: the channel is closed and nothing is left in
\* its buffer (loadTests.go:427)
UsersDrained(t) == chUsers[t] = <<>> /\ chUsersClosed[t]

\* chUsers closed and drained: close(chPipelines); wg.Done() (loadTests.go:489-490)
S2Close(t) ==
    /\ Running
    /\ UNCHANGED purgeVars
    /\ pc[<<t, 2>>] = "recv"
    /\ UsersDrained(t)
    /\ chPipelinesClosed' = [chPipelinesClosed EXCEPT ![t] = TRUE]
    /\ wg' = [wg EXCEPT ![t] = @ - 1]
    /\ pc' = [pc EXCEPT ![<<t, 2>>] = "done"]
    /\ UNCHANGED <<hist4Vars, hist3Vars, flagVars, durVars, failVars, barVars, chUsers,
                   chUsersClosed, chPipelines, logVars, histVars, mainVars,
                   exited, tpc, userIndex, inner, cur, polls, pend,
                   logCalls>>

\* ------------------------------------------------ Stage 3 (pipelines)
\* for userIndex := range chPipelines: receive one ordinal and start
\* k8swait.Poll on it (loadTests.go:495-502)
S3Receive(t) ==
    /\ Running
    /\ UNCHANGED purgeVars
    /\ pc[<<t, 3>>] = "recv"
    /\ chPipelines[t] # <<>>
    /\ chPipelines' = [chPipelines EXCEPT ![t] = Tail(@)]
    /\ cur' = [cur EXCEPT ![<<t, 3>>] = Head(chPipelines[t])]
    /\ polls' = [polls EXCEPT ![t] = 0]
    /\ lookupErrs' = [lookupErrs EXCEPT ![t] = 0]
    /\ recvPipelines' = [recvPipelines EXCEPT ![t] = Append(@, Head(chPipelines[t]))]
    /\ pc' = [pc EXCEPT ![<<t, 3>>] = "poll"]
    /\ UNCHANGED <<attempted, recvUsers, usersBarBy, resourcesBarBy,
                   observed, timedOut, flagVars, durVars, failVars, barVars,
                   chUsers, chUsersClosed, chPipelinesClosed, logVars, histVars,
                   mainVars, exited, tpc, wg, userIndex, inner, pend,
                   logCalls>>

\* faulty variant of LookupErrorResult: the condition hands the lookup error
\* to Poll
LookupErrorReturned == [done |-> FALSE, err |-> TRUE]

\* what the Poll condition returns when GetComponentPipelineRun failed:
\* return false, nil (loadTests.go:504-506)
LookupErrorResult == [done |-> FALSE, err |-> FALSE]

\* AveragePipelineRunTimePerUser[threadIndex] += CompletionTime - CreationTimestamp
\* (loadTests.go:508)
S3Record(t, d, failed) ==
    /\ AveragePipelineRunTimePerUser' =
          [AveragePipelineRunTimePerUser EXCEPT ![t] = @ + d]
    /\ observed' = [observed EXCEPT ![t] =
                       @ \cup {[user |-> cur[<<t, 3>>], failed |-> failed]}]

\* one evaluation of the Poll condition; Poll returns as soon as the
\* condition returns true or an error (loadTests.go:502-517)
S3Poll(t) ==
    /\ Running
    /\ UNCHANGED purgeVars
    /\ pc[<<t, 3>>] = "poll"
    /\ polls[t] < MaxPolls
    /\ \/ \* GetComponentPipelineRun failed
          /\ lookupErrs' = [lookupErrs EXCEPT ![t] = @ + 1]
          /\ IF LookupErrorResult.err
             THEN /\ CallLogError(<<t, 3>>, 9, UserNumber(t, cur[<<t, 3>>]))
                  /\ UNCHANGED polls
             ELSE /\ polls' = [polls EXCEPT ![t] = @ + 1]
                  /\ UNCHANGED <<pc, pend, logCalls>>
          /\ UNCHANGED <<AveragePipelineRunTimePerUser, pipelinesBar, cur,
                         observed>>
       \/ \* the run is not done: false, nil
          /\ polls' = [polls EXCEPT ![t] = @ + 1]
          /\ UNCHANGED <<AveragePipelineRunTimePerUser, pipelinesBar, pc, cur,
                         pend, logCalls, observed, lookupErrs>>
       \/ \* done and succeeded: duration added, pipelinesBar.Incr(), true
          /\ \E d \in Durations : S3Record(t, d, FALSE)
          /\ pipelinesBar' = pipelinesBar + 1
          /\ pc' = [pc EXCEPT ![<<t, 3>>] = "recv"]
          /\ cur' = [cur EXCEPT ![<<t, 3>>] = 0]
          /\ UNCHANGED <<polls, pend, logCalls, lookupErrs>>
       \/ \* done and failed: duration added, logError(8, ...)
          /\ \E d \in Durations : S3Record(t, d, TRUE)
          /\ CallLogError(<<t, 3>>, 8, UserNumber(t, cur[<<t, 3>>]))
          /\ UNCHANGED <<polls, pipelinesBar, cur, lookupErrs>>
    /\ UNCHANGED <<hist4Vars, timedOut, flagVars, AverageUserCreationTime,
                   AverageResourceCreationTimePerUser, failVars, usersBar,
                   resourcesBar, chanVars, logVars, histVars, mainVars, exited,
                   tpc, wg, userIndex, inner>>

\* Poll gives up: error != nil, logError(9, ...) (loadTests.go:518-519)
S3Timeout(t) ==
    /\ Running
    /\ UNCHANGED purgeVars
    /\ pc[<<t, 3>>] = "poll"
    /\ polls[t] = MaxPolls
    /\ timedOut' = [timedOut EXCEPT ![t] = @ \cup {cur[<<t, 3>>]}]
    /\ CallLogError(<<t, 3>>, 9, UserNumber(t, cur[<<t, 3>>]))
    /\ UNCHANGED <<hist4Vars, observed, lookupErrs, flagVars, durVars, failVars,
                   barVars,
                   chanVars, logVars, histVars, mainVars, exited, tpc, wg,
                   userIndex, inner, cur, polls>>

\* faulty variant of BarAfterFailure: a failed run does not advance the bar
BarNotAdvanced(code) == pipelinesBar

\* pipelinesBar.Incr() follows the code-8 branch inside the condition; the
\* code-9 branch has none (loadTests.go:514, 518-521)
BarAfterFailure(code) == IF code = 8 THEN pipelinesBar + 1 ELSE pipelinesBar

\* faulty variant of S3Continue: a failed wait ends the Stage-3 goroutine
S3Return == "done"

\* where Stage 3 goes after a failed wait: the next receive
\* (loadTests.go:516-517, 521)
S3Continue == "recv"

\* after logError returned: the atomic add on FailedPipelineRuns[threadIndex];
\* for code 8 also pipelinesBar.Incr() and the condition returns true
\* (loadTests.go:512-516, 520-521)
S3Failed(t) ==
    /\ Running
    /\ UNCHANGED purgeVars
    /\ pc[<<t, 3>>] = "failed"
    /\ FailedPipelineRuns' = AddFailed(FailedPipelineRuns, t)
    /\ pipelinesBar' = BarAfterFailure(pend[<<t, 3>>].errCode)
    /\ pend' = [pend EXCEPT ![<<t, 3>>] = NoPend]
    /\ cur' = [cur EXCEPT ![<<t, 3>>] = 0]
    /\ pc' = [pc EXCEPT ![<<t, 3>>] = S3Continue]
    /\ UNCHANGED <<hist4Vars, hist3Vars, flagVars, durVars, FailedUserCreations,
                   FailedResourceCreations, usersBar, resourcesBar, chanVars,
                   logVars, histVars, mainVars, exited, tpc, wg, userIndex,
                   inner, polls, logCalls>>

\* faulty variant of PipelinesDrained: the loop ends as soon as the channel
\* is closed, whatever is left in its buffer
PipelinesClosed(t) == chPipelinesClosed[t]

\* for ... range chPipelines ends: the channel is closed and nothing is left
\* in its buffer (loadTests.go:495)
PipelinesDrained(t) == chPipelines[t] = <<>> /\ chPipelinesClosed[t]

\* chPipelines closed and drained: wg.Done() (loadTests.go:495, 524)
S3Done(t) ==
    /\ Running
    /\ UNCHANGED purgeVars
    /\ pc[<<t, 3>>] = "recv"
    /\ PipelinesDrained(t)
    /\ wg' = [wg EXCEPT ![t] = @ - 1]
    /\ pc' = [pc EXCEPT ![<<t, 3>>] = "done"]
    /\ UNCHANGED <<hist4Vars, hist3Vars, flagVars, durVars, failVars, barVars, chanVars, logVars,
                   histVars, mainVars, exited, tpc, userIndex, inner, cur,
                   polls, pend, logCalls>>


\* ------------------------------------------------------ join and report
\* faulty variant of AllThreadsDone: setup does not wait for the threads
AllThreadsDoneUnchecked == TRUE

\* threadsWG.Wait() can return (loadTests.go:287)
AllThreadsDone == threadsWG = 0

\* the error table as setup reads it: code, count, latest message
ErrorTable == {errorOccurredMap[c] : c \in DOMAIN errorOccurredMap}

\* threadsWG.Wait() returns; the averages, sums and percentages are computed
\* and logged with the error counts (loadTests.go:287-311)
MainSummary ==
    /\ Running
    /\ UNCHANGED purgeVars
    /\ mainpc = "wait"
    /\ AllThreadsDone
    /\ summary' =
         [createUserTimeAvg |->
              averageDurationFromArray(AverageUserCreationTime, overallCount),
          createResourcesTimeAvg |->
              averageDurationFromArray(AverageResourceCreationTimePerUser, overallCount),
          runPipelineTimeAvg |->
              averageDurationFromArray(AveragePipelineRunTimePerUser, overallCount),
          createUserFailures |-> sumFromArray(FailedUserCreations),
          createUserFailureRate |->
              <<100 * sumFromArray(FailedUserCreations), overallCount>>,
          createResourcesFailures |-> sumFromArray(FailedResourceCreations),
          createResourcesFailureRate |->
              <<100 * sumFromArray(FailedResourceCreations), overallCount>>,
          runPipelineFailures |-> sumFromArray(FailedPipelineRuns),
          runPipelineFailureRate |->
              <<100 * sumFromArray(FailedPipelineRuns), overallCount>>,
          errors |-> ErrorTable]
    /\ mainpc' = "summary"
    /\ UNCHANGED <<hist4Vars, hist3Vars, flagVars, durVars, failVars, barVars, chanVars, logVars,
                   histVars, logData, threadsWG, exited, tpc, wg, pc,
                   userIndex, inner, cur, polls, pend, logCalls>>

\* os.Hostname fails: return without the JSON file (loadTests.go:325-329)
MainNoHostname ==
    /\ Running
    /\ UNCHANGED purgeVars
    /\ mainpc = "summary"
    /\ mainpc' = "done"
    /\ UNCHANGED <<hist4Vars, hist3Vars, flagVars, durVars, failVars, barVars, chanVars, logVars,
                   histVars, summary, logData, threadsWG, exited, tpc, wg, pc,
                   userIndex, inner, cur, polls, pend, logCalls>>

\* the error table is read again into errorOccurredList and LogData is
\* filled from it and from the values computed for the summary
\* (loadTests.go:336-366)
MainLogData ==
    /\ Running
    /\ UNCHANGED purgeVars
    /\ mainpc = "summary"
    /\ logData' = [summary EXCEPT !.errors = ErrorTable]
    /\ mainpc' = "done"
    /\ UNCHANGED <<hist4Vars, hist3Vars, flagVars, durVars, failVars, barVars, chanVars, logVars,
                   histVars, summary, threadsWG, exited, tpc, wg, pc,
                   userIndex, inner, cur, polls, pend, logCalls>>

\* ------------------------------------------------------------------ Next
Next ==
    \/ SetupBadBatches
    \/ SetupInitFatal
    \/ SetupSpawn
    \/ MainSummary
    \/ MainNoHostname
    \/ MainLogData
    \/ \E t \in Threads : UserJourneyThread(t)
    \/ \E t \in Threads : ThreadDone(t)
    \/ \E t \in Threads : S1Create(t)
    \/ \E t \in Threads : S1WaitForNamespace(t)
    \/ \E t \in Threads : S1Send(t)
    \/ \E t \in Threads : S1Failed(t)
    \/ \E t \in Threads : S1Close(t)
    \/ \E t \in Threads : S2Resources(t)
    \/ \E t \in Threads : S2Send(t)
    \/ \E t \in Threads : S2Failed(t)
    \/ \E t \in Threads : S2Close(t)
    \/ \E t \in Threads : S3Receive(t)
    \/ \E t \in Threads : S3Poll(t)
    \/ \E t \in Threads : S3Timeout(t)
    \/ \E t \in Threads : S3Failed(t)
    \/ \E t \in Threads : S3Done(t)
    \/ \E p \in Procs : LogErrorFatal(p)
    \/ \E p \in Procs : LogErrorLock(p)
    \/ \E p \in Procs : LogErrorRead(p)
    \/ \E p \in Procs : LogErrorWrite(p)

Spec == Init /\ [][Next]_vars


\* every run ends in a state where no step is possible; the Go scheduler
\* runs every goroutine that can take a step
FairSpec == Spec /\ WF_vars(Next)

\* ============================================================== claims
Range(seq) == {seq[k] : k \in 1 .. Len(seq)}

\* the cohort {k*B+1 .. k*B+B} of ordinal u, B being userBatches
Cohort(u) ==
    LET k == (u - 1) \div userBatches
    IN k * userBatches + 1 .. k * userBatches + userBatches

\* threadsWG.Wait() has returned in setup
Joined == mainpc \in {"summary", "done"}

\* the count the error table holds for a code, 0 when the code has no entry
MapCount(c) == IF c \in DOMAIN errorOccurredMap THEN errorOccurredMap[c].Count ELSE 0

\* the logError calls for code c that have not yet stored their entry
InLogError(c) ==
    {p \in Procs : pc[p] \in {"logError", "locked", "read"} /\ pend[p].errCode = c}

\* C1: cohort atomicity. No ordinal is in the Stage-1 -> Stage-2 queue's
\* history while a readiness check of a member of its cohort has failed:
\* a cohort with a failed check forwards none of its members.
C1_CohortAtomicity ==
    \A t \in Threads : \A u \in Range(sentUsers[t]) :
        \A chk \in nsChecks[t] : chk.member \in Cohort(u) => chk.ok

\* C2: once the run has reached the report, the Stage-1 failure counters
\* summed over the threads plus the number of ordinals forwarded into the
\* Stage-1 -> Stage-2 queues equals threadCount * numberOfUsers.
C2_Stage1Accounting ==
    Joined =>
        sumFromArray(FailedUserCreations)
            + SumOver([t \in Threads |-> Len(sentUsers[t])], Threads)
          = threadCount * numberOfUsers

\* C3: an ordinal whose identity creation failed is never sent on the
\* Stage-1 -> Stage-2 queue.
C3_FailedIdentityNotEnqueued ==
    \A t \in Threads : createFailed[t] \cap Range(sentUsers[t]) = {}

\* C4: with numberOfUsers mod userBatches # 0 setup never gets past the
\* validation: no thread is spawned, no stage goroutine exists (so no
\* collaborator operation is issued) and the only exit is the fatal one;
\* a spawned thread implies a divisible configuration.
C4_ValidationBeforeSpawn ==
    /\ numberOfUsers % userBatches # 0 =>
          /\ mainpc = "setup"
          /\ exited \in {"no", "config"}
          /\ \A t \in Threads : tpc[t] = "unspawned"
          /\ \A p \in Procs : pc[p] = "off"
          /\ usersBar = 0 /\ resourcesBar = 0 /\ pipelinesBar = 0
    /\ exited = "config" => numberOfUsers % userBatches # 0
    /\ (\E t \in Threads : tpc[t] # "unspawned") => numberOfUsers % userBatches = 0

C4_Witness == exited = "config" /\ numberOfUsers % userBatches # 0

\* C5: with fail-fast off, a run whose threads were spawned eventually
\* reaches the report (the top-level join returns), whatever fails and for
\* both values of waitPipelines.
C5_RunCompletes == (mainpc = "wait" /\ ~failFast) ~> Joined

\* a finished run in which Stage 3 was off, nothing received from
\* chPipelines and a failure was logged
C5_Witness ==
    /\ Joined /\ ~failFast /\ ~waitPipelines
    /\ \E t \in Threads : Len(chPipelines[t]) = ChannelCapacity
    /\ \E c \in ErrorCodes : logCalls[c] > 0

\* C6: no logError update is lost: for every code the stored count plus the
\* calls still inside logError equals the number of calls made, so after
\* join the count is the number of calls; and whenever no call for a code
\* holds the mutex, its stored latest message is that of the call for the
\* code that locked the mutex last.
C6_NoLostUpdate ==
    \A c \in ErrorCodes :
        /\ MapCount(c) + Cardinality(InLogError(c)) = logCalls[c]
        /\ Joined => MapCount(c) = logCalls[c]
        /\ (c \in DOMAIN errorOccurredMap
              /\ ~\E p \in Procs : pc[p] \in {"locked", "read"} /\ pend[p].errCode = c)
           => /\ errorOccurredMap[c].LatestMessage = lastLocked[c]
              /\ errorOccurredMap[c].ErrorNumber = c

\* two calls for the same code are inside logError at once, one holding
\* the mutex and one waiting for it
C6_Witness ==
    \E p, q \in Procs :
        /\ p # q
        /\ pc[p] = "logError" /\ pc[q] = "read"
        /\ pend[p].errCode = pend[q].errCode
        /\ ~failFast

\* C7: after the join, each stage's failure counters summed over the
\* threads equal the error table's counts for the codes of that stage.
C7_CountersMatchTable ==
    Joined =>
        /\ sumFromArray(FailedUserCreations) = MapCount(1) + MapCount(2)
        /\ sumFromArray(FailedResourceCreations) =
              MapCount(3) + MapCount(4) + MapCount(5) + MapCount(6) + MapCount(7)
        /\ sumFromArray(FailedPipelineRuns) = MapCount(8) + MapCount(9)

\* a joined run with a failure in each of the three stages
C7_Witness ==
    /\ Joined
    /\ sumFromArray(FailedUserCreations) > 0
    /\ sumFromArray(FailedResourceCreations) > 0
    /\ sumFromArray(FailedPipelineRuns) > 0

\* C8: setup is past the join only when every thread has signalled, and a
\* thread has signalled only when each of its enabled stages has finished;
\* so from the report on no stage goroutine can take a step.
C8_ReportAfterAllStages ==
    /\ Joined => \A t \in Threads : tpc[t] = "done"
    /\ \A t \in Threads : tpc[t] = "done" =>
          /\ pc[<<t, 1>>] = "done"
          /\ pc[<<t, 2>>] = "done"
          /\ pc[<<t, 3>>] = IF waitPipelines THEN "done" ELSE "off"

\* two threads with three stages each have joined
C8_Witness == Joined /\ threadCount = 2 /\ waitPipelines /\ pipelinesBar > 0

\* C9: from the join on no slot of the duration and failure arrays and no
\* entry of the error table changes, and the error table read for the JSON
\* report is the one read for the log summary.
C9_SnapshotStable ==
    [][/\ Joined => UNCHANGED <<durVars, failVars, errorOccurredMap>>
       /\ logData' # <<>> => logData' = summary']_vars

\* the JSON report was filled after a run that recorded errors
C9_Witness ==
    /\ mainpc = "done" /\ logData # <<>>
    /\ Cardinality(logData.errors) >= 2
    /\ logData.createResourcesTimeAvg[1] + logData.createUserFailures > 0

\* C10: an ordinal that failed a Stage-2 step is never sent to Stage 3, the
\* thread's resource-failure counter counts exactly one per such ordinal,
\* and Stage 2 goes on: when Stages 1 and 2 are finished every ordinal sent
\* to Stage 2 has either failed a step or been forwarded.
C10_Stage2FailureIsLocal ==
    \A t \in Threads :
        LET failed == {f[1] : f \in resFailed[t]}
            counting == IF pc[<<t, 2>>] \in {"logError", "locked", "read", "failed"}
                        THEN 1 ELSE 0
        IN /\ failed \cap Range(sentPipelines[t]) = {}
           /\ Cardinality(resFailed[t]) = Cardinality(failed)
           /\ tpc[t] # "unspawned" /\ mainpc # "setup" =>
                 FailedResourceCreations[t] + counting = Cardinality(failed)
           /\ pc[<<t, 1>>] = "done" /\ pc[<<t, 2>>] = "done" =>
                 Range(sentUsers[t]) = failed \cup Range(sentPipelines[t])

\* Stage 2 failed on the first ordinal of a thread and forwarded the second
C10_Witness ==
    \E t \in Threads :
        /\ pc[<<t, 2>>] = "done"
        /\ \E c \in ResourceSteps : resFailed[t] = {<<1, c>>}
        /\ sentPipelines[t] = <<2>>
        /\ FailedResourceCreations[t] = 1

\* C11: with waitPipelines off Stage 3 never runs: its goroutine is never
\* started, every slot of the pipeline duration and pipeline failure arrays
\* stays 0, the pipeline bar stays at 0, no logError call is made for the
\* codes 8 and 9 and the error table has no entry for them.
C11_Stage3Disabled ==
    ~waitPipelines =>
        /\ \A t \in Threads : pc[<<t, 3>>] = "off"
        /\ \A t \in DOMAIN AveragePipelineRunTimePerUser :
              AveragePipelineRunTimePerUser[t] = 0
        /\ \A t \in DOMAIN FailedPipelineRuns : FailedPipelineRuns[t] = 0
        /\ pipelinesBar = 0
        /\ logCalls[8] = 0 /\ logCalls[9] = 0
        /\ 8 \notin DOMAIN errorOccurredMap /\ 9 \notin DOMAIN errorOccurredMap
        /\ \A t \in Threads : observed[t] = {} /\ timedOut[t] = {}

\* a run with Stage 3 off has joined; Stage 2 forwarded an ordinal into
\* chPipelines, which nobody received
C11_Witness ==
    /\ Joined /\ ~waitPipelines
    /\ \E t \in Threads : sentPipelines[t] # <<>> /\ chPipelines[t] = sentPipelines[t]
    /\ \A t \in DOMAIN AveragePipelineRunTimePerUser :
          AveragePipelineRunTimePerUser[t] = 0

\* the ordinals of a thread whose build Stage 3 saw in a terminal state
ObservedUsers(t) == {o.user : o \in observed[t]}

\* 1 while Stage 3 of thread t is between a logError call and the add on
\* its failure counter, 0 otherwise
S3Counting(t) ==
    IF pc[<<t, 3>>] \in {"logError", "locked", "read", "failed"} THEN 1 ELSE 0

\* C12: a wait that times out logs code 9 once for its ordinal (the calls
\* for code 9 are as many as the ordinals that timed out), counts one
\* pipeline failure, adds no pipeline duration for that ordinal (durations
\* are added for observed ordinals only, and no timed-out ordinal is one),
\* and Stage 3 goes on: when Stages 2 and 3 are finished every forwarded
\* ordinal has either timed out or been observed in a terminal state.
C12_TimeoutRecorded ==
    /\ logCalls[9] = SumOver([t \in Threads |-> Cardinality(timedOut[t])], Threads)
    /\ \A t \in Threads :
          /\ timedOut[t] \cap ObservedUsers(t) = {}
          /\ t \in DOMAIN AveragePipelineRunTimePerUser =>
                /\ AveragePipelineRunTimePerUser[t] >= Cardinality(ObservedUsers(t))
                /\ AveragePipelineRunTimePerUser[t] <=
                      MaxDuration * Cardinality(ObservedUsers(t))
                /\ FailedPipelineRuns[t] + S3Counting(t) =
                      Cardinality(timedOut[t])
                        + Cardinality({o \in observed[t] : o.failed})
          /\ pc[<<t, 2>>] = "done" /\ pc[<<t, 3>>] = "done" =>
                Range(sentPipelines[t]) = timedOut[t] \cup ObservedUsers(t)

\* the wait for the first ordinal of a thread timed out, the second
\* ordinal's build was then seen to succeed, and Stage 3 finished
C12_Witness ==
    \E t \in Threads :
        /\ pc[<<t, 3>>] = "done"
        /\ sentPipelines[t] = <<1, 2>>
        /\ timedOut[t] = {1}
        /\ observed[t] = {[user |-> 2, failed |-> FALSE]}
        /\ FailedPipelineRuns[t] = 1
        /\ MapCount(9) = 1

\* no logError call was made: every collaborator operation succeeded and no
\* wait timed out
NothingFailed == \A c \in ErrorCodes : logCalls[c] = 0

\* C13: in a run of a valid configuration in which nothing failed, once the
\* report is filled: every ordinal 1..numberOfUsers of every thread was
\* forwarded by Stage 1 and by Stage 2 and, with waitPipelines, observed by
\* Stage 3; the report has 0 failures for every stage and an empty error
\* table; and the average durations of the enabled stages are above 0.
C13_CleanRunReport ==
    (mainpc = "done" /\ logData # <<>> /\ NothingFailed) =>
        /\ \A t \in Threads :
              /\ Range(sentUsers[t]) = 1 .. numberOfUsers
              /\ Range(sentPipelines[t]) = 1 .. numberOfUsers
              /\ waitPipelines => ObservedUsers(t) = 1 .. numberOfUsers
        /\ logData.createUserFailures = 0
        /\ logData.createResourcesFailures = 0
        /\ logData.runPipelineFailures = 0
        /\ logData.errors = {}
        /\ logData.createUserTimeAvg[2] = threadCount * numberOfUsers
        /\ logData.createUserTimeAvg[1] > 0
        /\ logData.createResourcesTimeAvg[1] > 0
        /\ waitPipelines => logData.runPipelineTimeAvg[1] > 0

\* C14: each average the summary reports is the sum over the threads of the
\* stage's per-thread cumulative duration divided by
\* threadCount * numberOfUsers: its denominator is that product and its
\* numerator, in ticks, is the sum of the array's slots.
C14_AverageOverAttempted ==
    summary # <<>> =>
        /\ summary.createUserTimeAvg[2] = threadCount * numberOfUsers
        /\ summary.createResourcesTimeAvg[2] = threadCount * numberOfUsers
        /\ summary.runPipelineTimeAvg[2] = threadCount * numberOfUsers
        /\ summary.createUserTimeAvg[1] * TicksPerSecond =
              sumFromArray(AverageUserCreationTime)
        /\ summary.createResourcesTimeAvg[1] * TicksPerSecond =
              sumFromArray(AverageResourceCreationTimePerUser)
        /\ summary.runPipelineTimeAvg[1] * TicksPerSecond =
              sumFromArray(AveragePipelineRunTimePerUser)

\* C15: with failFast on, a logError call never gets past the fatal exit:
\* no caller locks the mutex, the error table stays empty, no failure
\* counter is raised and, once a call was made, setup never gets past the
\* join (no summary, no report); the process has exited by fail-fast only
\* with failFast on and a caller inside logError, and from then on no step
\* changes anything. With failFast off the process never exits from logError.
C15_FailFast ==
    /\ [](failFast =>
            /\ errorOccurredMap = <<>>
            /\ \A p \in Procs : pc[p] \notin {"locked", "read", "failed"}
            /\ \A t \in DOMAIN FailedUserCreations :
                  /\ FailedUserCreations[t] = 0
                  /\ FailedResourceCreations[t] = 0
                  /\ FailedPipelineRuns[t] = 0
            /\ (\E c \in ErrorCodes : logCalls[c] > 0) =>
                  mainpc = "wait" /\ summary = <<>> /\ logData = <<>>)
    /\ [](exited = "failfast" =>
            failFast /\ \E p \in Procs : pc[p] = "logError")
    /\ [](~failFast => exited \in {"no", "config", "init"})
    /\ [][exited = "failfast" => UNCHANGED vars]_vars

\* the process exited from a logError call while another stage goroutine
\* was in the middle of its work
C15_Witness ==
    /\ exited = "failfast"
    /\ \E p, q \in Procs :
          /\ p # q
          /\ pc[p] = "logError"
          /\ pc[q] \in {"wait", "send", "poll"}

\* the step changes a local of stage goroutine p
Stepped(p) ==
    \/ pc'[p] # pc[p]
    \/ cur'[p] # cur[p]
    \/ pend'[p] # pend[p]
    \/ p[2] = 1 /\ (userIndex'[p[1]] # userIndex[p[1]] \/ inner'[p[1]] # inner[p[1]])
    \/ p[2] = 3 /\ polls'[p[1]] # polls[p[1]]

\* the step is one of stage goroutine p and of no other stage goroutine
OnlyActor(p) == Stepped(p) /\ \A q \in Procs \ {p} : ~Stepped(q)

\* 1 while stage s of thread t is between a logError call and the add on
\* its failure counter, 0 otherwise
Counting(t, s) ==
    IF pc[<<t, s>>] \in {"logError", "locked", "read", "failed"} THEN 1 ELSE 0

\* C16: once the arrays are allocated, a step that changes slot [t] of a
\* user array is a step of Stage 1 of thread t alone, of a resource array
\* of Stage 2 of thread t alone, of a pipeline array of Stage 3 of thread t
\* alone; and no increment is lost: each failure slot, plus the add its
\* owner is about to make, is the number of failures its owner met.
C16_SingleWriter ==
    /\ [][mainpc # "setup" =>
            \A t \in Threads :
                /\ (AverageUserCreationTime'[t] # AverageUserCreationTime[t]
                      \/ FailedUserCreations'[t] # FailedUserCreations[t])
                   => OnlyActor(<<t, 1>>)
                /\ (AverageResourceCreationTimePerUser'[t]
                          # AverageResourceCreationTimePerUser[t]
                      \/ FailedResourceCreations'[t] # FailedResourceCreations[t])
                   => OnlyActor(<<t, 2>>)
                /\ (AveragePipelineRunTimePerUser'[t] # AveragePipelineRunTimePerUser[t]
                      \/ FailedPipelineRuns'[t] # FailedPipelineRuns[t])
                   => OnlyActor(<<t, 3>>)]_vars
    /\ [](\A t \in DOMAIN FailedUserCreations :
            /\ FailedUserCreations[t] + Counting(t, 1) =
                  Cardinality(createFailed[t])
                    + Cardinality({chk \in nsChecks[t] : ~chk.ok})
            /\ FailedResourceCreations[t] + Counting(t, 2) =
                  Cardinality(resFailed[t])
            /\ FailedPipelineRuns[t] + Counting(t, 3) =
                  Cardinality(timedOut[t])
                    + Cardinality({o \in observed[t] : o.failed}))

\* two threads have run to the join; Stage 1 of thread 0 and Stage 2 of
\* thread 1 each counted a failure, and both threads added durations
C16_Witness ==
    /\ Joined /\ threadCount = 2
    /\ FailedUserCreations[0] = 1 /\ FailedResourceCreations[0] = 0
    /\ FailedUserCreations[1] = 0 /\ FailedResourceCreations[1] = 1
    /\ AverageUserCreationTime[1] > 0

\* C17: a Poll evaluation whose lookup fails leaves Stage 3 polling the
\* same ordinal and records nothing (no logError call, no counter, no
\* duration, no bar step); the wait for an ordinal ends only with the build
\* seen in a terminal state or, after MaxPolls evaluations, with the
\* timeout and code 9.
C17_LookupErrorKeepsPolling ==
    [][\A t \in Threads :
          /\ lookupErrs'[t] > lookupErrs[t] =>
                /\ pc[<<t, 3>>] = "poll" /\ pc'[<<t, 3>>] = "poll"
                /\ cur'[<<t, 3>>] = cur[<<t, 3>>]
                /\ pend'[<<t, 3>>] = NoPend
                /\ UNCHANGED <<logCalls, failVars, durVars, barVars,
                               errorOccurredMap, observed, timedOut>>
          /\ (pc[<<t, 3>>] = "poll" /\ pc'[<<t, 3>>] # "poll") =>
                \/ /\ cur[<<t, 3>>] \notin {o.user : o \in observed[t]}
                   /\ cur[<<t, 3>>] \in {o.user : o \in observed'[t]}
                \/ /\ polls[t] = MaxPolls
                   /\ pend'[<<t, 3>>].errCode = 9
                   /\ cur[<<t, 3>>] \in timedOut'[t]]_vars

\* a wait met a lookup error, went on polling and then saw the build
\* succeed; no pipeline failure was recorded
C17_Witness ==
    \E t \in Threads :
        /\ lookupErrs[t] > 0
        /\ pc[<<t, 3>>] = "recv"
        /\ observed[t] = {[user |-> 1, failed |-> FALSE]}
        /\ timedOut[t] = {}
        /\ FailedPipelineRuns[t] = 0
        /\ logCalls[8] = 0 /\ logCalls[9] = 0

C19_OwnNamespaceChecked ==
    \A t \in Threads :
        /\ \A chk \in nsChecks[t] : chk.ns = UserNumber(t, chk.member)
        /\ \A u \in 1 .. numberOfUsers :
              LET checks == {chk \in nsChecks[t] : chk.member \in Cohort(u)}
              IN Cardinality({chk.ns : chk \in checks})
                    = Cardinality({chk.member : chk \in checks})

\* the builds of a thread that Stage 3 saw in the failed terminal state
ObservedFailed(t) == {o \in observed[t] : o.failed}

\* 1 while Stage 3 of thread t is inside the code-8 branch, before
\* pipelinesBar.Incr(), 0 otherwise
InFailedBranch(t) ==
    IF pc[<<t, 3>>] \in {"logError", "locked", "read", "failed"}
          /\ pend[<<t, 3>>].errCode = 8
    THEN 1 ELSE 0

\* C20: for every build Stage 3 sees in a terminal state, once: its
\* elapsed time is added to the thread's pipeline duration, the pipeline
\* bar advances by one (after the failure branch, when the build failed),
\* and code 8 is logged and the pipeline failure counter raised exactly
\* when the build failed.
C20_TerminalStateRecorded ==
    /\ pipelinesBar + SumOver([t \in Threads |-> InFailedBranch(t)], Threads)
          = SumOver([t \in Threads |-> Cardinality(observed[t])], Threads)
    /\ logCalls[8]
          = SumOver([t \in Threads |-> Cardinality(ObservedFailed(t))], Threads)
    /\ Joined => MapCount(8) = logCalls[8]
    /\ \A t \in Threads :
          /\ Cardinality(observed[t]) = Cardinality(ObservedUsers(t))
          /\ ObservedUsers(t) \subseteq Range(sentPipelines[t])
          /\ t \in DOMAIN FailedPipelineRuns =>
                /\ AveragePipelineRunTimePerUser[t] \in
                      Cardinality(observed[t]) .. MaxDuration * Cardinality(observed[t])
                /\ FailedPipelineRuns[t] + Counting(t, 3) - Cardinality(timedOut[t])
                      = Cardinality(ObservedFailed(t))

\* a thread's first build was seen failed and its second succeeded; the
\* run has joined with both counted on the bar and one failure recorded
C20_Witness ==
    /\ Joined
    /\ \E t \in Threads :
          /\ observed[t] = {[user |-> 1, failed |-> TRUE],
                            [user |-> 2, failed |-> FALSE]}
          /\ FailedPipelineRuns[t] = 1
    /\ pipelinesBar = 2
    /\ MapCount(8) = 1

\* the Stage-2 steps run for ordinal u of thread t
StepsOf(t, u) == {a[2] : a \in {b \in attempted[t] : b[1] = u}}

\* C21: the steps Stage 2 runs for an ordinal are an initial part of
\* 3, 4, 5, 6, 7 (secret, application, gitops repo, component, name check);
\* an ordinal that failed at step c ran the steps 3..c and none after it,
\* has one recorded failure, whose code is c, and an ordinal that did not
\* fail ran all five; the logError calls for each code are as many as the
\* ordinals that failed at that step.
C21_FirstFailureShortCircuits ==
    /\ \A t \in Threads :
          /\ \A f \in resFailed[t] : StepsOf(t, f[1]) = 3 .. f[2]
          /\ Cardinality(resFailed[t]) = Cardinality({f[1] : f \in resFailed[t]})
          /\ \A u \in Range(recvUsers[t]) \ {f[1] : f \in resFailed[t]} :
                StepsOf(t, u) = 3 .. 7
          /\ \A p \in {<<t, 2>>} :
                pend[p].errCode # 0 => <<cur[p], pend[p].errCode>> \in resFailed[t]
    /\ \A c \in 3 .. 7 :
          logCalls[c] =
             SumOver([t \in Threads |-> Cardinality({f \in resFailed[t] : f[2] = c})],
                     Threads)

\* Stage 2 stopped at the gitops-repo wait for the first ordinal of a
\* thread, having run three steps, and ran all five for the second
C21_Witness ==
    \E t \in Threads :
        /\ resFailed[t] = {<<1, 5>>}
        /\ StepsOf(t, 1) = {3, 4, 5}
        /\ sentPipelines[t] = <<2>>
        /\ StepsOf(t, 2) = {3, 4, 5, 6, 7}
        /\ MapCount(5) = 1

\* C22: a closed queue stays closed and nothing is sent on it any more;
\* chUsers is closed in the step in which Stage 1 ends, after iteration
\* numberOfUsers, and chPipelines in the step in which Stage 2 ends, with
\* chUsers closed and everything sent on it received; a stage ends once,
\* with its queue still open; and a thread that is done has both closed.
C22_QueueShutdown ==
    /\ [][\A t \in Threads :
            /\ chUsersClosed[t] =>
                  chUsersClosed'[t] /\ sentUsers'[t] = sentUsers[t]
            /\ chPipelinesClosed[t] =>
                  chPipelinesClosed'[t] /\ sentPipelines'[t] = sentPipelines[t]
            /\ (~chUsersClosed[t] /\ chUsersClosed'[t]) =>
                  /\ pc[<<t, 1>>] = "create" /\ pc'[<<t, 1>>] = "done"
                  /\ userIndex[t] = numberOfUsers + 1
            /\ (~chPipelinesClosed[t] /\ chPipelinesClosed'[t]) =>
                  /\ pc[<<t, 2>>] = "recv" /\ pc'[<<t, 2>>] = "done"
                  /\ chUsersClosed[t] /\ chUsers[t] = <<>>
                  /\ recvUsers[t] = sentUsers[t]
            /\ (pc[<<t, 1>>] # "done" /\ pc'[<<t, 1>>] = "done") =>
                  ~chUsersClosed[t] /\ chUsersClosed'[t]
            /\ (pc[<<t, 2>>] # "done" /\ pc'[<<t, 2>>] = "done") =>
                  ~chPipelinesClosed[t] /\ chPipelinesClosed'[t]
            /\ pc[<<t, 1>>] = "done" => pc'[<<t, 1>>] = "done"
            /\ pc[<<t, 2>>] = "done" => pc'[<<t, 2>>] = "done"]_vars
    /\ [](\A t \in Threads :
            tpc[t] = "done" => chUsersClosed[t] /\ chPipelinesClosed[t])

\* a thread is done with both queues closed, after two ordinals went
\* through chUsers and Stage 2 failed on one of them
C22_Witness ==
    \E t \in Threads :
        /\ tpc[t] = "done"
        /\ chUsersClosed[t] /\ chPipelinesClosed[t]
        /\ sentUsers[t] = <<1, 2>>
        /\ Cardinality(resFailed[t]) = 1
        /\ Len(sentPipelines[t]) = 1

\* a sequence without repetitions
NoRepeats(seq) == Cardinality(Range(seq)) = Len(seq)

\* C23: nothing is lost or repeated on the way: what was sent on a queue is
\* what its consumer received followed by what the queue still holds, and
\* no ordinal is sent twice; when the thread is done Stage 2 has received
\* everything Stage 1 sent and has, for each ordinal once, either failed a
\* step or forwarded it; and with waitPipelines Stage 3 has received
\* everything Stage 2 forwarded and has, for each ordinal once, either
\* seen its build in a terminal state or timed out.
C23_NoLossNoDuplication ==
    \A t \in Threads :
        /\ sentUsers[t] = recvUsers[t] \o chUsers[t]
        /\ sentPipelines[t] = recvPipelines[t] \o chPipelines[t]
        /\ NoRepeats(sentUsers[t]) /\ NoRepeats(sentPipelines[t])
        /\ tpc[t] = "done" =>
              /\ recvUsers[t] = sentUsers[t]
              /\ Range(sentUsers[t]) =
                    {f[1] : f \in resFailed[t]} \cup Range(sentPipelines[t])
              /\ Len(sentUsers[t]) =
                    Cardinality(resFailed[t]) + Len(sentPipelines[t])
              /\ waitPipelines =>
                    /\ recvPipelines[t] = sentPipelines[t]
                    /\ Range(sentPipelines[t]) = ObservedUsers(t) \cup timedOut[t]
                    /\ Len(sentPipelines[t]) =
                          Cardinality(observed[t]) + Cardinality(timedOut[t])

\* a thread is done after two ordinals went through both queues and
\* Stage 3 saw one build end and timed out on the other
C23_Witness ==
    \E t \in Threads :
        /\ tpc[t] = "done" /\ waitPipelines
        /\ recvUsers[t] = <<1, 2>>
        /\ recvPipelines[t] = <<1, 2>>
        /\ Cardinality(observed[t]) = 1 /\ Cardinality(timedOut[t]) = 1

\* C24: on each queue of a thread at most numberOfUsers ordinals are ever
\* sent, so a queue never holds more than its capacity and a stage that is
\* about to send finds room; and with failFast off Stage 2 of every thread
\* finishes, whether or not anything receives from chPipelines.
C24_SendNeverBlocks ==
    /\ [](\A t \in Threads :
            /\ Len(sentUsers[t]) <= numberOfUsers
            /\ Len(sentPipelines[t]) <= numberOfUsers
            /\ Len(chUsers[t]) <= numberOfUsers
            /\ Len(chPipelines[t]) <= numberOfUsers
            /\ pc[<<t, 1>>] = "send" => Len(chUsers[t]) < numberOfUsers
            /\ pc[<<t, 2>>] = "send" => Len(chPipelines[t]) < numberOfUsers)
    /\ (mainpc = "wait" /\ ~failFast)
          ~> (\A t \in Threads : pc[<<t, 2>>] = "done")

\* Stage 3 is off, Stage 2 of a thread has finished and chPipelines is
\* full with both ordinals, which nobody receives
C24_Witness ==
    /\ ~waitPipelines
    /\ \E t \in Threads :
          /\ pc[<<t, 2>>] = "done"
          /\ numberOfUsers = 2
          /\ chPipelines[t] = <<1, 2>>

\* the Stage-1 iterations of thread t in which a readiness check failed;
\* the iteration is the ordinal the checked namespace is formatted from
FailedCheckIterations(t) ==
    {chk.ns - t * numberOfUsers : chk \in {c \in nsChecks[t] : ~c.ok}}

\* a percentage kept as <<numerator, denominator>> is a number in [0, 100]
InPercentRange(r) == r[2] > 0 /\ r[1] >= 0 /\ r[1] <= 100 * r[2]

\* C25: a user adds at most one failure per stage: no Stage-1 iteration
\* records both code 1 and code 2 or two failed checks, no Stage-2 ordinal
\* two codes, no Stage-3 ordinal both code 8 and code 9; so each stage's
\* summed failure counter is at most threadCount * numberOfUsers, and each
\* failure percentage of the summary is a number between 0 and 100.
C25_FailureBounds ==
    /\ \A t \in Threads :
          /\ createFailed[t] \cap FailedCheckIterations(t) = {}
          /\ Cardinality(FailedCheckIterations(t)) =
                Cardinality({c \in nsChecks[t] : ~c.ok})
          /\ Cardinality(resFailed[t]) = Cardinality({f[1] : f \in resFailed[t]})
          /\ {o.user : o \in ObservedFailed(t)} \cap timedOut[t] = {}
    /\ sumFromArray(FailedUserCreations) <= threadCount * numberOfUsers
    /\ sumFromArray(FailedResourceCreations) <= threadCount * numberOfUsers
    /\ sumFromArray(FailedPipelineRuns) <= threadCount * numberOfUsers
    /\ summary # <<>> =>
          /\ InPercentRange(summary.createUserFailureRate)
          /\ InPercentRange(summary.createResourcesFailureRate)
          /\ InPercentRange(summary.runPipelineFailureRate)

\* 1 while Stage 2 of thread t works on an ordinal it received, 0 otherwise
S2Busy(t) ==
    IF pc[<<t, 2>>] \in {"send", "logError", "locked", "read", "failed"}
    THEN 1 ELSE 0

\* C26: each shared bar is the sum of its threads' increments; for every
\* started thread, its users-bar increments plus its user-failure counter
\* is the number of iterations Stage 1 has finished, and its resources-bar
\* increments plus its resource-failure counter is the number of ordinals
\* Stage 2 has finished; after the join the users bar plus the summed
\* user-failure counters is threadCount * numberOfUsers.
C26_ProgressAccounting ==
    /\ usersBar = SumOver(usersBarBy, Threads)
    /\ resourcesBar = SumOver(resourcesBarBy, Threads)
    /\ \A t \in Threads :
          tpc[t] \in {"wait", "done"} =>
             /\ usersBarBy[t] + FailedUserCreations[t] = userIndex[t] - 1
             /\ resourcesBarBy[t] + FailedResourceCreations[t]
                   = Len(recvUsers[t]) - S2Busy(t)
    /\ Joined =>
          usersBar + sumFromArray(FailedUserCreations) = threadCount * numberOfUsers

\* a thread's first iteration failed and its second advanced the bar;
\* Stage 2 failed on one ordinal and forwarded the other; the run joined
C26_Witness ==
    /\ Joined
    /\ \E t \in Threads :
          /\ usersBarBy[t] = 1 /\ FailedUserCreations[t] = 1
          /\ resourcesBarBy[t] = 1 /\ FailedResourceCreations[t] = 1

\* ----------------------------------------------------------------- purge
\* package journey (part_001): Purge and its two helpers, called on its own
\* with the load test's variables at rest
StageSteps == <<"applications", "componentDetectionQueries",
                "buildPipelineSelectors">>
CiStep == "userSignup"

\* the contexts Purge ranges over; Opts.Stage selects the helper
Contexts ==
    UNION {[1 .. n -> [Stage : BOOLEAN]] : n \in 0 .. MaxContexts}

PurgeInit ==
    /\ threadCount = 0
    /\ numberOfUsers = 0
    /\ userBatches = 1
    /\ waitPipelines = FALSE
    /\ failFast = FALSE
    /\ LoadTestStart
    /\ MainContexts \in Contexts
    /\ ctxIndex = 0
    /\ purgepc = "call"
    /\ errCounter = 0
    /\ purgeErr = NotReturned
    /\ stepsRun = {}
    /\ failedAt = {}

\* faulty variant of NextContext: the loop stops at the first failed context
NextContextBreak(i, failed) ==
    IF failed THEN Len(MainContexts) + 1 ELSE i + 1

\* the range loop moves to the next context whether or not the purge of
\* this one failed (part_001:48-62)
NextContext(i, failed) == i + 1

\* errCounter := 0 and the start of the range loop (part_001:46-48)
Purge ==
    /\ purgepc = "call"
    /\ errCounter' = 0
    /\ ctxIndex' = 1
    /\ purgepc' = "range"
    /\ UNCHANGED <<loadVars, MainContexts, purgeErr, stepsRun, failedAt>>

\* one iteration's dispatch: purgeStage for a Stage context, purgeCi
\* otherwise (part_001:48-49, 55-56)
PurgeRange ==
    /\ purgepc = "range"
    /\ ctxIndex <= Len(MainContexts)
    /\ purgepc' = IF MainContexts[ctxIndex].Stage THEN StageSteps[1] ELSE CiStep
    /\ UNCHANGED <<loadVars, MainContexts, ctxIndex, errCounter, purgeErr,
                   stepsRun, failedAt>>

\* the helper returned an error to Purge: log, errCounter++ (part_001:51-54,
\* 57-60); or it returned nil; either way the loop goes on
HelperReturned(failed) ==
    /\ errCounter' = IF failed THEN errCounter + 1 ELSE errCounter
    /\ ctxIndex' = NextContext(ctxIndex, failed)
    /\ purgepc' = "range"

\* deletion step k of purgeStage: on an error purgeStage returns at once,
\* after the last step it returns nil (part_001:14-30)
StageDelete(k, failed) ==
    /\ stepsRun' = stepsRun \cup {<<ctxIndex, StageSteps[k]>>}
    /\ failedAt' = IF failed THEN failedAt \cup {<<ctxIndex, StageSteps[k]>>}
                   ELSE failedAt
    /\ IF failed \/ k = Len(StageSteps)
       THEN HelperReturned(failed)
       ELSE /\ purgepc' = StageSteps[k + 1]
            /\ UNCHANGED <<ctxIndex, errCounter>>
    /\ UNCHANGED <<loadVars, MainContexts, purgeErr>>

\* part_001:14-17
DeleteAllApplicationsInASpecificNamespace ==
    \E failed \in BOOLEAN :
       /\ purgepc = StageSteps[1]
       /\ StageDelete(1, failed)

\* part_001:19-22
DeleteAllComponentDetectionQueriesInASpecificNamespace ==
    \E failed \in BOOLEAN :
       /\ purgepc = StageSteps[2]
       /\ StageDelete(2, failed)

\* part_001:24-30
DeleteAllBuildPipelineSelectors ==
    \E failed \in BOOLEAN :
       /\ purgepc = StageSteps[3]
       /\ StageDelete(3, failed)

\* purgeCi: the one deletion and its return (part_001:36-42)
DeleteUserSignup ==
    \E failed \in BOOLEAN :
       /\ purgepc = CiStep
       /\ stepsRun' = stepsRun \cup {<<ctxIndex, CiStep>>}
       /\ failedAt' = IF failed THEN failedAt \cup {<<ctxIndex, CiStep>>}
                      ELSE failedAt
       /\ HelperReturned(failed)
       /\ UNCHANGED <<loadVars, MainContexts, purgeErr>>

\* after the loop: "Hit %d errors" when errCounter > 0, nil otherwise
\* (part_001:64-69)
PurgeReturn ==
    /\ purgepc = "range"
    /\ ctxIndex > Len(MainContexts)
    /\ purgeErr' = [returned |-> TRUE, isError |-> errCounter > 0,
                    hit |-> errCounter]
    /\ purgepc' = "returned"
    /\ UNCHANGED <<loadVars, MainContexts, ctxIndex, errCounter, stepsRun,
                   failedAt>>

PurgeNext ==
    \/ Purge
    \/ PurgeRange
    \/ DeleteAllApplicationsInASpecificNamespace
    \/ DeleteAllComponentDetectionQueriesInASpecificNamespace
    \/ DeleteAllBuildPipelineSelectors
    \/ DeleteUserSignup
    \/ PurgeReturn

PurgeSpec == PurgeInit /\ [][PurgeNext]_vars

\* the contexts whose helper returned an error
FailedContexts == {i \in 1 .. Len(MainContexts) : \E e \in failedAt : e[1] = i}

\* the deletion calls made for context i
StepsRunFor(i) == {e[2] : e \in {r \in stepsRun : r[1] = i}}

\* position of a purgeStage step in its order
StepNo(s) == CHOOSE k \in 1 .. Len(StageSteps) : StageSteps[k] = s

\* C27: errCounter always is the number of contexts whose purge failed; a
\* context is purged by the helper its Opts.Stage selects; within purgeStage
\* no step runs after a failed one; and once Purge returned, every context
\* was attempted, the result is an error exactly when some context failed,
\* and the count in the error is the number of failed contexts.
C27_PurgeCountsEveryContext ==
    /\ errCounter = Cardinality(FailedContexts)
    /\ \A i \in 1 .. Len(MainContexts) :
          /\ StepsRunFor(i) \subseteq
                (IF MainContexts[i].Stage THEN Range(StageSteps) ELSE {CiStep})
          /\ \A e \in failedAt : \A r \in stepsRun :
                (e[1] = i /\ r[1] = i /\ MainContexts[i].Stage)
                   => StepNo(r[2]) <= StepNo(e[2])
    /\ purgeErr.returned =>
          /\ \A i \in 1 .. Len(MainContexts) : StepsRunFor(i) # {}
          /\ purgeErr.isError <=> FailedContexts # {}
          /\ purgeErr.isError => purgeErr.hit = Cardinality(FailedContexts)

\* Purge returned an error after a Stage context failed at its second step,
\* a later Stage context ran all three steps, and a CI context failed too
C27_Witness ==
    /\ purgeErr.returned
    /\ purgeErr.isError
    /\ \E i, j, c \in 1 .. Len(MainContexts) :
          /\ i < j
          /\ <<i, StageSteps[2]>> \in failedAt
          /\ StepsRunFor(j) = Range(StageSteps)
          /\ <<c, CiStep>> \in failedAt
    /\ purgeErr.hit >= 2

====
